---- MODULE Spec2Model ----
(***************************************************************************)
(* Chat server of src/server/server.go: one handleClient worker per        *)
(* accepted connection, the shared map `clients` (connection -> nickname)  *)
(* guarded by the mutex `clientsLock`, and the two routing functions       *)
(* broadcastMessage and sendPrivateMessage.                                *)
(*                                                                         *)
(* Text is modelled as a sequence of tokens: a command word ("/NICK"),     *)
(* a blank (" "), or a word ("a", "b", "hi").  The string functions the    *)
(* code uses (TrimSpace, HasPrefix, TrimPrefix, SplitN) are operators on   *)
(* such sequences.                                                         *)
(***************************************************************************)
EXTENDS Integers, Sequences, FiniteSets, TLC

\* ------------------------------------------------------------------ bounds
\* Number of accepted connections (one worker each).
NumConns == 2
\* Total number of complete input lines the workers consume from all connections.
MaxLines == 3
\* Largest number of complete lines one read of the transport returns at once.
MaxChunk == 2
\* Total number of lines the workers consume in the runs checked for progress.
FairLines == 2

Conns == 1..NumConns

\* ------------------------------------------------------- protocol constants
SP == " "
NickChangeCommand == <<"/NICK", SP>>
MessageCommand == <<"/MSG", SP>>
ListCommand == <<"/LIST">>
BroadcastCommand == <<"/BC", SP>>

\* The raw lines a client may send (before the trailing newline).
Lines ==
  { <<"/NICK", SP, "a">>,
    <<"/NICK", SP, "b">>,
    <<"/NICK", SP>>,
    <<"/LIST">>,
    <<"/BC", SP, "hi">>,
    <<"/BC", SP>>,
    <<"/MSG", SP, "a", SP, "hi">>,
    <<"/MSG", SP, "b">>,
    <<"hi">> }

\* ------------------------------------------------------------- string helpers
RECURSIVE TrimLeft(_)
TrimLeft(s) ==
  IF s # <<>> /\ Head(s) = SP THEN TrimLeft(Tail(s)) ELSE s

RECURSIVE TrimRight(_)
TrimRight(s) ==
  IF s # <<>> /\ s[Len(s)] = SP THEN TrimRight(SubSeq(s, 1, Len(s) - 1)) ELSE s

\* A trim of the leading white space only.
TrimSpaceLeftOnly(s) == TrimLeft(s)

TrimSpace(s) == TrimRight(TrimLeft(s))

HasPrefix(s, prefix) ==
  /\ Len(s) >= Len(prefix)
  /\ SubSeq(s, 1, Len(prefix)) = prefix

TrimPrefix(s, prefix) ==
  IF HasPrefix(s, prefix) THEN SubSeq(s, Len(prefix) + 1, Len(s)) ELSE s

\* strings.SplitN(s, " ", 2): at most two parts, cut at the first blank.
SplitN2(s) ==
  IF \E i \in 1..Len(s) : s[i] = SP
  THEN LET i == CHOOSE j \in 1..Len(s) : s[j] = SP /\ \A k \in 1..(j - 1) : s[k] # SP
       IN << SubSeq(s, 1, i - 1), SubSeq(s, i + 1, Len(s)) >>
  ELSE << s >>

\* ------------------------------------------------------------------- replies
Text(kind, a, b) == [kind |-> kind, a |-> a, b |-> b]
NoWrite == [by |-> 0, to |-> 0, text |-> Text("none", <<>>, <<>>), ok |-> TRUE]

VARIABLES
  clients,      \* the map clients: a function from a set of connections to nicknames
  clientsLock,  \* holder of the mutex, 0 when free
  pc,           \* position of each worker in handleClient
  nickname,     \* handleClient's local nickname
  hasNickname,  \* handleClient's local hasNickname
  message,      \* the trimmed line being dispatched
  clientList,   \* getClientList's result, held by the /LIST branch
  rest,         \* entries the range loop of a routing call has not visited yet
  wr,           \* writes of the running routing call, per connection: [text, ok]
  readErr,      \* the read of line 70 has failed (end-of-stream or error)
  lost,         \* complete lines consumed from the connection and never dispatched
  nread,        \* lines consumed from all connections
  out           \* the write performed by the last step

vars == << clients, clientsLock, pc, nickname, hasNickname, message, clientList,
           rest, wr, readErr, lost, nread, out >>

NoWrites == [k \in Conns |-> <<>>]

Init ==
  /\ clients = [k \in {} |-> <<>>]
  /\ clientsLock = 0
  /\ pc = [c \in Conns |-> "welcome"]
  /\ nickname = [c \in Conns |-> <<>>]
  /\ hasNickname = [c \in Conns |-> FALSE]
  /\ message = [c \in Conns |-> <<>>]
  /\ clientList = [c \in Conns |-> <<>>]
  /\ rest = [c \in Conns |-> {}]
  /\ wr = [c \in Conns |-> NoWrites]
  /\ readErr = [c \in Conns |-> FALSE]
  /\ lost = [c \in Conns |-> 0]
  /\ nread = 0
  /\ out = NoWrite

\* ------------------------------------------------------------ pure helpers
\* Every order in which a range loop can visit the keys of a map.
Orders(S) ==
  { o \in [1..Cardinality(S) -> S] : \A i, j \in 1..Cardinality(S) : o[i] = o[j] => i = j }

RECURSIVE Join(_, _)
\* clientList += clientNickname + " ", for the keys in the order o (lines 180-182).
Join(o, i) ==
  IF i > Len(o) THEN <<>> ELSE clients[o[i]] \o <<SP>> \o Join(o, i + 1)

\* isNicknameAvailable's loop (lines 157-162), evaluated under the lock.
isNicknameAvailable(nick) ==
  \A k \in DOMAIN clients : clients[k] # nick

\* getClientList with a loop that skips the first entry it visits.
getClientListSkipFirst ==
  { Join(o, 2) : o \in Orders(DOMAIN clients) }

\* getClientList's loop (lines 179-183): the strings it can return.
getClientList ==
  { Join(o, 1) : o \in Orders(DOMAIN clients) }

\* Body of broadcastMessage's loop for one entry (lines 207-218): the lines it
\* writes to clientConn.
broadcastLine(clientConn, clientNickname, body, senderNickname, senderConn) ==
  IF clientNickname # senderNickname
  THEN << Text("from", senderNickname, body) >>
  ELSE IF clientConn = senderConn
       THEN << Text("you", <<>>, body) >>
       ELSE << >>

\* sendPrivateMessage's loop (lines 226-234): the entries the range can stop at.
findRecipient(recipientNickname) ==
  { k \in DOMAIN clients : clients[k] = recipientNickname }

\* The if/else chain with the /LIST branch not guarded by hasNickname.
DispatchListUngated(msg, has) ==
  IF HasPrefix(msg, NickChangeCommand) THEN "nick_check"
  ELSE IF msg = ListCommand THEN "list_lock"
  ELSE IF HasPrefix(msg, BroadcastCommand) /\ has THEN "bc_lock"
  ELSE IF HasPrefix(msg, MessageCommand) /\ has
       THEN IF Len(SplitN2(TrimPrefix(msg, MessageCommand))) # 2
            THEN "msg_usage"
            ELSE "pm_lock"
  ELSE IF has THEN "help"
  ELSE "regfirst"

\* The if/else chain with the /MSG branch not checking the number of parts.
DispatchNoArity(msg, has) ==
  IF HasPrefix(msg, NickChangeCommand) THEN "nick_check"
  ELSE IF msg = ListCommand /\ has THEN "list_lock"
  ELSE IF HasPrefix(msg, BroadcastCommand) /\ has THEN "bc_lock"
  ELSE IF HasPrefix(msg, MessageCommand) /\ has THEN "pm_lock"
  ELSE IF has THEN "help"
  ELSE "regfirst"

\* The branch of handleClient's if/else chain a trimmed line takes (lines 81-148).
Dispatch(msg, has) ==
  IF HasPrefix(msg, NickChangeCommand) THEN "nick_check"
  ELSE IF msg = ListCommand /\ has THEN "list_lock"
  ELSE IF HasPrefix(msg, BroadcastCommand) /\ has THEN "bc_lock"
  ELSE IF HasPrefix(msg, MessageCommand) /\ has
       THEN IF Len(SplitN2(TrimPrefix(msg, MessageCommand))) # 2
            THEN "msg_usage"
            ELSE "pm_lock"
  ELSE IF has THEN "help"
  ELSE "regfirst"

\* conn.Write on a connection its worker has closed fails; otherwise the
\* transport decides.
WriteOutcomes(to) ==
  IF pc[to] = "closed" THEN {FALSE} ELSE BOOLEAN

Wr(by, to, text, ok) == [by |-> by, to |-> to, text |-> text, ok |-> ok]

\* delete keyed by the nickname instead of the connection.
DelByNickname(c) ==
  [k \in { j \in DOMAIN clients : j # c /\ clients[j] # nickname[c] } |-> clients[k]]

Put(c) == [k \in DOMAIN clients \cup {c} |-> IF k = c THEN nickname[c] ELSE clients[k]]
Del(c) == [k \in DOMAIN clients \ {c} |-> clients[k]]

\* ------------------------------------------------------------------ actions
\* Lines 61-66: the welcome message; a failed write returns (deferred Close).
Welcome(c) ==
  /\ pc[c] = "welcome"
  /\ \E ok \in WriteOutcomes(c) :
       /\ out' = Wr(c, c, Text("welcome", <<>>, <<>>), ok)
       /\ pc' = [pc EXCEPT ![c] = IF ok THEN "read" ELSE "closed"]
  /\ UNCHANGED << clients, clientsLock, nickname, hasNickname, message, clientList,
                  rest, wr, readErr, lost, nread >>

\* Lines 70, 79-148: a fresh bufio.Reader takes every byte one read of the
\* transport returns (n complete lines), ReadString returns the first line and
\* the reader is dropped with the others; the line is trimmed and dispatched.
ReadLine(c) ==
  /\ pc[c] = "read"
  /\ \E line \in Lines, n \in 1..MaxChunk :
       /\ nread + n <= MaxLines
       /\ nread' = nread + n
       /\ lost' = [lost EXCEPT ![c] = @ + (n - 1)]
       /\ message' = [message EXCEPT ![c] = TrimSpace(line)]
       /\ pc' = [pc EXCEPT ![c] = Dispatch(TrimSpace(line), hasNickname[c])]
  /\ out' = NoWrite
  /\ UNCHANGED << clients, clientsLock, nickname, hasNickname, clientList,
                  rest, wr, readErr >>

\* Lines 71-74: the read fails; handleClientDisconnect is called.
ReadError(c) ==
  /\ pc[c] = "read"
  /\ readErr' = [readErr EXCEPT ![c] = TRUE]
  /\ pc' = [pc EXCEPT ![c] = "disc_lock"]
  /\ out' = NoWrite
  /\ UNCHANGED << clients, clientsLock, nickname, hasNickname, message, clientList,
                  rest, wr, lost, nread >>

\* Line 154: isNicknameAvailable takes the lock.
AvailLock(c) ==
  /\ pc[c] = "nick_check"
  /\ clientsLock = 0
  /\ clientsLock' = c
  /\ pc' = [pc EXCEPT ![c] = "nick_scan"]
  /\ out' = NoWrite
  /\ UNCHANGED << clients, nickname, hasNickname, message, clientList,
                  rest, wr, readErr, lost, nread >>

\* The scan with nickname = newNickname done before the result is looked at.
AvailScanAssignFirst(c) ==
  LET newNickname == TrimPrefix(message[c], NickChangeCommand) IN
  /\ pc[c] = "nick_scan"
  /\ clientsLock' = 0
  /\ nickname' = [nickname EXCEPT ![c] = newNickname]
  /\ pc' = [pc EXCEPT ![c] = IF \A k \in DOMAIN clients : clients[k] # newNickname
                             THEN "nick_lock" ELSE "nick_inuse"]
  /\ out' = NoWrite
  /\ UNCHANGED << clients, hasNickname, message, clientList,
                  rest, wr, readErr, lost, nread >>

\* The scan leaving the requester's own entry out of the comparison.
AvailScanSkipOwn(c) ==
  LET newNickname == TrimPrefix(message[c], NickChangeCommand) IN
  /\ pc[c] = "nick_scan"
  /\ clientsLock' = 0
  /\ IF \A k \in DOMAIN clients \ {c} : clients[k] # newNickname
     THEN /\ nickname' = [nickname EXCEPT ![c] = newNickname]
          /\ pc' = [pc EXCEPT ![c] = "nick_lock"]
     ELSE /\ nickname' = nickname
          /\ pc' = [pc EXCEPT ![c] = "nick_inuse"]
  /\ out' = NoWrite
  /\ UNCHANGED << clients, hasNickname, message, clientList,
                  rest, wr, readErr, lost, nread >>

\* Lines 155-162 and 84-85: the scan, the deferred unlock, and the branch on
\* the result (nickname = newNickname when the name is free).
AvailScan(c) ==
  LET newNickname == TrimPrefix(message[c], NickChangeCommand) IN
  /\ pc[c] = "nick_scan"
  /\ clientsLock' = 0
  /\ IF isNicknameAvailable(newNickname)
     THEN /\ nickname' = [nickname EXCEPT ![c] = newNickname]
          /\ pc' = [pc EXCEPT ![c] = "nick_lock"]
     ELSE /\ nickname' = nickname
          /\ pc' = [pc EXCEPT ![c] = "nick_inuse"]
  /\ out' = NoWrite
  /\ UNCHANGED << clients, hasNickname, message, clientList,
                  rest, wr, readErr, lost, nread >>

\* Lines 88-92 without the Lock of line 88.
NickLockSkipped(c) ==
  /\ pc[c] = "nick_lock"
  /\ pc' = [pc EXCEPT ![c] = "nick_store"]
  /\ out' = NoWrite
  /\ UNCHANGED << clients, clientsLock, nickname, hasNickname, message, clientList,
                  rest, wr, readErr, lost, nread >>

\* Line 88.
NickLock(c) ==
  /\ pc[c] = "nick_lock"
  /\ clientsLock = 0
  /\ clientsLock' = c
  /\ pc' = [pc EXCEPT ![c] = "nick_store"]
  /\ out' = NoWrite
  /\ UNCHANGED << clients, nickname, hasNickname, message, clientList,
                  rest, wr, readErr, lost, nread >>

\* Lines 90-92: clients[conn] = nickname, unlock.
NickStore(c) ==
  /\ pc[c] = "nick_store"
  /\ clients' = Put(c)
  /\ clientsLock' = 0
  /\ pc' = [pc EXCEPT ![c] = "nick_confirm"]
  /\ out' = NoWrite
  /\ UNCHANGED << nickname, hasNickname, message, clientList,
                  rest, wr, readErr, lost, nread >>

\* The confirmation without the hasNickname = true of line 95.
NickConfirmNoFlag(c) ==
  /\ pc[c] = "nick_confirm"
  /\ \E ok \in WriteOutcomes(c) :
       /\ out' = Wr(c, c, Text("nickset", nickname[c], <<>>), ok)
       /\ pc' = [pc EXCEPT ![c] = IF ok THEN "read" ELSE "closed"]
  /\ message' = [message EXCEPT ![c] = <<>>]
  /\ UNCHANGED << clients, clientsLock, nickname, hasNickname, clientList,
                  rest, wr, readErr, lost, nread >>

\* Lines 94-100: hasNickname = true, the confirmation; a failed write returns.
NickConfirm(c) ==
  /\ pc[c] = "nick_confirm"
  /\ hasNickname' = [hasNickname EXCEPT ![c] = TRUE]
  /\ \E ok \in WriteOutcomes(c) :
       /\ out' = Wr(c, c, Text("nickset", nickname[c], <<>>), ok)
       /\ pc' = [pc EXCEPT ![c] = IF ok THEN "read" ELSE "closed"]
  /\ message' = [message EXCEPT ![c] = <<>>]
  /\ UNCHANGED << clients, clientsLock, nickname, clientList,
                  rest, wr, readErr, lost, nread >>

\* The rejection branch also clearing hasNickname.
NickInUseResets(c) ==
  /\ pc[c] = "nick_inuse"
  /\ \E ok \in WriteOutcomes(c) :
       /\ out' = Wr(c, c, Text("inuse", <<>>, <<>>), ok)
       /\ pc' = [pc EXCEPT ![c] = IF ok THEN "read" ELSE "closed"]
  /\ message' = [message EXCEPT ![c] = <<>>]
  /\ hasNickname' = [hasNickname EXCEPT ![c] = FALSE]
  /\ UNCHANGED << clients, clientsLock, nickname, clientList,
                  rest, wr, readErr, lost, nread >>

\* Lines 103-108: the "already in use" notice; a failed write returns.
NickInUse(c) ==
  /\ pc[c] = "nick_inuse"
  /\ \E ok \in WriteOutcomes(c) :
       /\ out' = Wr(c, c, Text("inuse", <<>>, <<>>), ok)
       /\ pc' = [pc EXCEPT ![c] = IF ok THEN "read" ELSE "closed"]
  /\ message' = [message EXCEPT ![c] = <<>>]
  /\ UNCHANGED << clients, clientsLock, nickname, hasNickname, clientList,
                  rest, wr, readErr, lost, nread >>

\* Line 176: getClientList takes the lock.
ListLock(c) ==
  /\ pc[c] = "list_lock"
  /\ clientsLock = 0
  /\ clientsLock' = c
  /\ pc' = [pc EXCEPT ![c] = "list_scan"]
  /\ out' = NoWrite
  /\ UNCHANGED << clients, nickname, hasNickname, message, clientList,
                  rest, wr, readErr, lost, nread >>

\* getClientList returning without the deferred Unlock.
ListScanNoUnlock(c) ==
  /\ pc[c] = "list_scan"
  /\ \E l \in getClientList : clientList' = [clientList EXCEPT ![c] = l]
  /\ pc' = [pc EXCEPT ![c] = "list_reply"]
  /\ out' = NoWrite
  /\ UNCHANGED << clients, clientsLock, nickname, hasNickname, message,
                  rest, wr, readErr, lost, nread >>

\* Lines 177-183: the list is built under the lock, which the return releases.
ListScan(c) ==
  /\ pc[c] = "list_scan"
  /\ \E l \in getClientList : clientList' = [clientList EXCEPT ![c] = l]
  /\ clientsLock' = 0
  /\ pc' = [pc EXCEPT ![c] = "list_reply"]
  /\ out' = NoWrite
  /\ UNCHANGED << clients, nickname, hasNickname, message,
                  rest, wr, readErr, lost, nread >>

\* Lines 114-119: the list reply; a failed write returns.
ListReply(c) ==
  /\ pc[c] = "list_reply"
  /\ \E ok \in WriteOutcomes(c) :
       /\ out' = Wr(c, c, Text("list", clientList[c], <<>>), ok)
       /\ pc' = [pc EXCEPT ![c] = IF ok THEN "read" ELSE "closed"]
  /\ message' = [message EXCEPT ![c] = <<>>]
  /\ clientList' = [clientList EXCEPT ![c] = <<>>]
  /\ UNCHANGED << clients, clientsLock, nickname, hasNickname,
                  rest, wr, readErr, lost, nread >>

\* broadcastMessage copying the keys under the lock and releasing it before
\* the writes.
BroadcastLockSnapshot(c) ==
  /\ pc[c] = "bc_lock"
  /\ clientsLock = 0
  /\ clientsLock' = 0
  /\ rest' = [rest EXCEPT ![c] = DOMAIN clients]
  /\ pc' = [pc EXCEPT ![c] = "bc_range"]
  /\ out' = NoWrite
  /\ UNCHANGED << clients, nickname, hasNickname, message, clientList,
                  wr, readErr, lost, nread >>

\* Line 203: broadcastMessage takes the lock; the range starts over the map.
BroadcastLock(c) ==
  /\ pc[c] = "bc_lock"
  /\ clientsLock = 0
  /\ clientsLock' = c
  /\ rest' = [rest EXCEPT ![c] = DOMAIN clients]
  /\ pc' = [pc EXCEPT ![c] = "bc_range"]
  /\ out' = NoWrite
  /\ UNCHANGED << clients, nickname, hasNickname, message, clientList,
                  wr, readErr, lost, nread >>

\* The range of broadcastMessage leaving the loop at the first failed write.
BroadcastRangeStopOnError(c) ==
  /\ pc[c] = "bc_range"
  /\ \E k \in rest[c] :
       LET ls == broadcastLine(k, clients[k], TrimPrefix(message[c], BroadcastCommand),
                               nickname[c], c)
       IN IF ls = <<>>
          THEN /\ out' = NoWrite
               /\ wr' = wr
               /\ rest' = [rest EXCEPT ![c] = @ \ {k}]
          ELSE \E ok \in WriteOutcomes(k) :
                 /\ out' = Wr(c, k, ls[1], ok)
                 /\ wr' = [wr EXCEPT ![c][k] = Append(@, [text |-> ls[1], ok |-> ok])]
                 /\ rest' = [rest EXCEPT ![c] = IF ok THEN @ \ {k} ELSE {}]
  /\ UNCHANGED << clients, clientsLock, pc, nickname, hasNickname, message, clientList,
                  readErr, lost, nread >>

\* Lines 206-219: one iteration of the range, in any order; a failed write is
\* logged and the loop goes on.
BroadcastRange(c) ==
  /\ pc[c] = "bc_range"
  /\ \E k \in rest[c] :
       LET ls == broadcastLine(k, clients[k], TrimPrefix(message[c], BroadcastCommand),
                               nickname[c], c)
       IN /\ rest' = [rest EXCEPT ![c] = @ \ {k}]
          /\ IF ls = <<>>
             THEN /\ out' = NoWrite
                  /\ wr' = wr
             ELSE \E ok \in WriteOutcomes(k) :
                    /\ out' = Wr(c, k, ls[1], ok)
                    /\ wr' = [wr EXCEPT ![c][k] = Append(@, [text |-> ls[1], ok |-> ok])]
  /\ UNCHANGED << clients, clientsLock, pc, nickname, hasNickname, message, clientList,
                  readErr, lost, nread >>

\* Line 204 (deferred): the range is over, the lock is released, back to the read.
BroadcastUnlock(c) ==
  /\ pc[c] = "bc_range"
  /\ rest[c] = {}
  /\ clientsLock' = 0
  /\ wr' = [wr EXCEPT ![c] = NoWrites]
  /\ message' = [message EXCEPT ![c] = <<>>]
  /\ pc' = [pc EXCEPT ![c] = "read"]
  /\ out' = NoWrite
  /\ UNCHANGED << clients, nickname, hasNickname, clientList,
                  rest, readErr, lost, nread >>

\* Lines 126-133: the usage reply; a failed write returns, otherwise continue.
MsgUsage(c) ==
  /\ pc[c] = "msg_usage"
  /\ \E ok \in WriteOutcomes(c) :
       /\ out' = Wr(c, c, Text("usage", <<>>, <<>>), ok)
       /\ pc' = [pc EXCEPT ![c] = IF ok THEN "read" ELSE "closed"]
  /\ message' = [message EXCEPT ![c] = <<>>]
  /\ UNCHANGED << clients, clientsLock, nickname, hasNickname, clientList,
                  rest, wr, readErr, lost, nread >>

\* sendPrivateMessage without the Lock of line 223.
PrivateLockSkipped(c) ==
  /\ pc[c] = "pm_lock"
  /\ pc' = [pc EXCEPT ![c] = "pm_range"]
  /\ out' = NoWrite
  /\ UNCHANGED << clients, clientsLock, nickname, hasNickname, message, clientList,
                  rest, wr, readErr, lost, nread >>

\* Line 223: sendPrivateMessage takes the lock.
PrivateLock(c) ==
  /\ pc[c] = "pm_lock"
  /\ clientsLock = 0
  /\ clientsLock' = c
  /\ pc' = [pc EXCEPT ![c] = "pm_range"]
  /\ out' = NoWrite
  /\ UNCHANGED << clients, nickname, hasNickname, message, clientList,
                  rest, wr, readErr, lost, nread >>

\* sendPrivateMessage without the return of line 232: after the delivery the
\* "not found" notice is written to the sender as well.
PrivateRangeNoReturn(c) ==
  LET parts == SplitN2(TrimPrefix(message[c], MessageCommand))
      recipientNickname == parts[1]
      messageToSend == parts[2]
      notice == [text |-> Text("notfound", recipientNickname, <<>>), ok |-> TRUE]
  IN
  /\ pc[c] = "pm_range"
  /\ \E ks \in SUBSET { k \in DOMAIN clients : clients[k] = recipientNickname } :
       /\ Cardinality(ks) = IF \E k \in DOMAIN clients : clients[k] = recipientNickname
                            THEN 1 ELSE 0
       /\ wr' = [wr EXCEPT ![c] =
                   [k \in Conns |->
                      (IF k \in ks
                       THEN << [text |-> Text("private", nickname[c], messageToSend), ok |-> TRUE] >>
                       ELSE << >>)
                      \o (IF k = c THEN << notice >> ELSE << >>)]]
  /\ out' = Wr(c, c, notice.text, TRUE)
  /\ pc' = [pc EXCEPT ![c] = "pm_unlock"]
  /\ UNCHANGED << clients, clientsLock, nickname, hasNickname, message, clientList,
                  rest, readErr, lost, nread >>

\* Lines 226-241: the range stops at the first entry with the recipient's
\* nickname and writes to it; with no such entry the notice goes to the sender.
PrivateRange(c) ==
  LET parts == SplitN2(TrimPrefix(message[c], MessageCommand))
      recipientNickname == parts[1]
      messageToSend == parts[2]
  IN
  /\ pc[c] = "pm_range"
  /\ IF findRecipient(recipientNickname) # {}
     THEN \E k \in findRecipient(recipientNickname) : \E ok \in WriteOutcomes(k) :
            /\ wr' = [wr EXCEPT ![c][k] =
                        Append(@, [text |-> Text("private", nickname[c], messageToSend), ok |-> ok])]
            /\ out' = Wr(c, k, Text("private", nickname[c], messageToSend), ok)
     ELSE \E ok \in WriteOutcomes(c) :
            /\ wr' = [wr EXCEPT ![c][c] =
                        Append(@, [text |-> Text("notfound", recipientNickname, <<>>), ok |-> ok])]
            /\ out' = Wr(c, c, Text("notfound", recipientNickname, <<>>), ok)
  /\ pc' = [pc EXCEPT ![c] = "pm_unlock"]
  /\ UNCHANGED << clients, clientsLock, nickname, hasNickname, message, clientList,
                  rest, readErr, lost, nread >>

\* Line 224 (deferred): the lock is released, back to the read.
PrivateUnlock(c) ==
  /\ pc[c] = "pm_unlock"
  /\ clientsLock' = 0
  /\ wr' = [wr EXCEPT ![c] = NoWrites]
  /\ message' = [message EXCEPT ![c] = <<>>]
  /\ pc' = [pc EXCEPT ![c] = "read"]
  /\ out' = NoWrite
  /\ UNCHANGED << clients, nickname, hasNickname, clientList,
                  rest, readErr, lost, nread >>

\* The help reply with a return on a failed write.
HelpChecked(c) ==
  /\ pc[c] = "help"
  /\ \E ok \in WriteOutcomes(c) :
       /\ out' = Wr(c, c, Text("help", <<>>, <<>>), ok)
       /\ pc' = [pc EXCEPT ![c] = IF ok THEN "read" ELSE "closed"]
  /\ message' = [message EXCEPT ![c] = <<>>]
  /\ UNCHANGED << clients, clientsLock, nickname, hasNickname, clientList,
                  rest, wr, readErr, lost, nread >>

\* Lines 142-144: the help reply; the result of the write is not looked at.
Help(c) ==
  /\ pc[c] = "help"
  /\ \E ok \in WriteOutcomes(c) : out' = Wr(c, c, Text("help", <<>>, <<>>), ok)
  /\ message' = [message EXCEPT ![c] = <<>>]
  /\ pc' = [pc EXCEPT ![c] = "read"]
  /\ UNCHANGED << clients, clientsLock, nickname, hasNickname, clientList,
                  rest, wr, readErr, lost, nread >>

\* Lines 146-147: the "set your nickname first" reply; the result of the write
\* is not looked at.
RegisterFirst(c) ==
  /\ pc[c] = "regfirst"
  /\ \E ok \in WriteOutcomes(c) : out' = Wr(c, c, Text("regfirst", <<>>, <<>>), ok)
  /\ message' = [message EXCEPT ![c] = <<>>]
  /\ pc' = [pc EXCEPT ![c] = "read"]
  /\ UNCHANGED << clients, clientsLock, nickname, hasNickname, clientList,
                  rest, wr, readErr, lost, nread >>

\* Line 166: handleClientDisconnect takes the lock.
DisconnectLock(c) ==
  /\ pc[c] = "disc_lock"
  /\ clientsLock = 0
  /\ clientsLock' = c
  /\ pc' = [pc EXCEPT ![c] = "disc_delete"]
  /\ out' = NoWrite
  /\ UNCHANGED << clients, nickname, hasNickname, message, clientList,
                  rest, wr, readErr, lost, nread >>

\* Lines 167-171 and 75: delete(clients, conn), unlock, return (deferred Close).
DisconnectDelete(c) ==
  /\ pc[c] = "disc_delete"
  /\ clients' = Del(c)
  /\ clientsLock' = 0
  /\ pc' = [pc EXCEPT ![c] = "closed"]
  /\ out' = NoWrite
  /\ UNCHANGED << nickname, hasNickname, message, clientList,
                  rest, wr, readErr, lost, nread >>

handleClient(c) ==
  \/ Welcome(c)
  \/ ReadLine(c)
  \/ ReadError(c)
  \/ AvailLock(c)
  \/ AvailScan(c)
  \/ NickLock(c)
  \/ NickStore(c)
  \/ NickConfirm(c)
  \/ NickInUse(c)
  \/ ListLock(c)
  \/ ListScan(c)
  \/ ListReply(c)
  \/ BroadcastLock(c)
  \/ BroadcastRange(c)
  \/ BroadcastUnlock(c)
  \/ MsgUsage(c)
  \/ PrivateLock(c)
  \/ PrivateRange(c)
  \/ PrivateUnlock(c)
  \/ Help(c)
  \/ RegisterFirst(c)
  \/ DisconnectLock(c)
  \/ DisconnectDelete(c)

Next == \E c \in Conns : handleClient(c)

Spec == Init /\ [][Next]_vars

\* The calls of clientsLock.Lock() (lines 88, 154, 166, 176, 203, 223): a
\* sync.Mutex hands the lock to a goroutine that has waited (starvation mode),
\* so a Lock() that can return again and again does return.
LockCall(c) ==
  \/ AvailLock(c)
  \/ NickLock(c)
  \/ ListLock(c)
  \/ BroadcastLock(c)
  \/ PrivateLock(c)
  \/ DisconnectLock(c)

\* The steps of a worker that wait for nothing but the scheduler and the
\* return of a conn.Write; the read of line 71 waits for the client and is
\* not one of them.
LocalStep(c) ==
  \/ Welcome(c)
  \/ AvailScan(c)
  \/ NickStore(c)
  \/ NickConfirm(c)
  \/ NickInUse(c)
  \/ ListScan(c)
  \/ ListReply(c)
  \/ BroadcastRange(c)
  \/ BroadcastUnlock(c)
  \/ MsgUsage(c)
  \/ PrivateRange(c)
  \/ PrivateUnlock(c)
  \/ Help(c)
  \/ RegisterFirst(c)
  \/ DisconnectDelete(c)

\* The steps of the runs in which the clients send FairLines lines at most.
FairNext ==
  \E c \in Conns :
    \/ ReadLine(c) /\ nread' <= FairLines
    \/ ReadError(c)
    \/ LockCall(c)
    \/ LocalStep(c)

\* The goroutines of line 49 are scheduled fairly and every conn.Write returns.
FairSpec ==
  /\ Init
  /\ [][FairNext]_vars
  /\ \A c \in Conns : WF_vars(LocalStep(c)) /\ SF_vars(LockCall(c))

\* ------------------------------------------------------------ observations
\* The texts a routing call of worker c has written to connection k so far.
Texts(c, k) == [i \in 1..Len(wr[c][k]) |-> wr[c][k][i].text]

\* The argument of the /BC line worker c is handling.
Body(c) == TrimPrefix(message[c], BroadcastCommand)

\* The two parts of the /MSG line worker c is handling.
Parts(c) == SplitN2(TrimPrefix(message[c], MessageCommand))

\* The range of broadcastMessage is over and the lock is still held.
BroadcastDone(c) == pc[c] = "bc_range" /\ rest[c] = {}

\* ---------------------------------------------------------------------- C1
\* C1: in every reachable state no two entries of the map clients hold the
\* same nickname.
NicknameUniqueness ==
  \A c, d \in DOMAIN clients : c # d => clients[c] # clients[d]

\* ---------------------------------------------------------------------- C2
\* C2: once a worker has returned and its connection is closed, the map
\* clients holds no entry keyed by that connection.
NoDanglingEntry ==
  \A c \in Conns : pc[c] = "closed" => c \notin DOMAIN clients

\* ---------------------------------------------------------------------- C3
\* C3: when the range of a broadcast is over, every connection in the registry
\* has been written exactly one line ("You: <body>" for the sender,
\* "<sender>: <body>" for every other entry) and no other connection has been
\* written anything.
BroadcastCompleteness ==
  \A c \in Conns :
    BroadcastDone(c) =>
      \A k \in Conns :
        Texts(c, k) =
          IF k \notin DOMAIN clients THEN << >>
          ELSE IF k = c THEN << Text("you", <<>>, Body(c)) >>
          ELSE << Text("from", nickname[c], Body(c)) >>

\* ---------------------------------------------------------------------- C4
\* C4: when sendPrivateMessage has finished its scan it has written exactly
\* one line: "<sender> (private): <body>" to one connection whose registry
\* entry has the recipient nickname and nothing to any other connection, or,
\* when no entry has that nickname, the "not found" notice to the sender and
\* nothing to any other connection.
DirectMessageExclusivity ==
  \A c \in Conns :
    pc[c] = "pm_unlock" =>
      LET recipient == Parts(c)[1]
          found == { k \in DOMAIN clients : clients[k] = recipient }
      IN IF found # {}
         THEN \E k \in found :
                /\ Texts(c, k) = << Text("private", nickname[c], Parts(c)[2]) >>
                /\ \A j \in Conns \ {k} : Texts(c, j) = << >>
         ELSE /\ Texts(c, c) = << Text("notfound", recipient, <<>>) >>
              /\ \A j \in Conns \ {c} : Texts(c, j) = << >>

\* C4 witness: a private message has been delivered to another session's
\* connection.
DirectMessageDelivered ==
  \E c \in Conns, k \in Conns :
    /\ c # k
    /\ pc[c] = "pm_unlock"
    /\ Len(wr[c][k]) = 1
    /\ wr[c][k][1].text.kind = "private"

\* ---------------------------------------------------------------------- C5
\* Worker c has just taken a line from its connection and chosen its branch.
Dispatched(c) == pc[c] = "read" /\ pc'[c] \notin {"read", "disc_lock"}

\* C5: a line other than a /NICK command read by a session that has not
\* registered takes the "set your nickname first" branch, and that branch
\* writes the reply to the session's own connection only, leaves the registry
\* unchanged and leaves the session unregistered and reading.
RegistrationGate ==
  [][\A c \in Conns :
       /\ ( /\ Dispatched(c)
            /\ ~hasNickname[c]
            /\ ~HasPrefix(message'[c], NickChangeCommand) )
          => pc'[c] = "regfirst"
       /\ (pc[c] = "regfirst" /\ pc'[c] # "regfirst")
          => /\ out'.by = c /\ out'.to = c /\ out'.text = Text("regfirst", <<>>, <<>>)
             /\ clients' = clients
             /\ ~hasNickname'[c]
             /\ pc'[c] = "read"
    ]_vars

\* C5 witness: an unregistered session has been sent the "set your nickname
\* first" reply and is back at the read, still unregistered.
RegistrationGateReplied ==
  \E c \in Conns :
    /\ out.by = c /\ out.to = c /\ out.text.kind = "regfirst"
    /\ ~hasNickname[c]
    /\ pc[c] = "read"

\* ---------------------------------------------------------------------- C6
\* A routing call of worker c that has had a failed write to c's own connection.
RouterOwnFailure(c) ==
  \E i \in 1..Len(wr[c][c]) : ~wr[c][c][i].ok

\* C6: a failed write of a reply to the session's own connection ends the
\* worker: a failed write made by handleClient itself returns at once, and a
\* routing call (broadcast echo, not-found notice) that had such a failure does
\* not go back to the read.
OwnWriteFailureFatal ==
  [][\A c \in Conns :
       /\ (out'.by = c /\ out'.to = c /\ ~out'.ok)
          => pc'[c] \in {"closed", "bc_range", "pm_unlock"}
       /\ (pc[c] \in {"bc_range", "pm_unlock"} /\ pc'[c] = "read")
          => ~RouterOwnFailure(c)
    ]_vars

\* ---------------------------------------------------------------------- C7
\* C7: every complete line taken from a connection is dispatched as a command
\* (none is consumed without being handled), also when several lines are
\* available at the moment of a read.
PerSessionOrdering ==
  \A c \in Conns : lost[c] = 0

\* ---------------------------------------------------------------------- C8
\* C8: a /NICK request rejected because the name is in the registry changes
\* neither the registry nor the session's nickname nor its hasNickname, from
\* the check to the notice, and its only write is the "already in use" notice
\* to the requester.
NamingConflictFrame ==
  [][\A c \in Conns :
       /\ (pc[c] = "nick_scan" /\ pc'[c] = "nick_inuse")
          => /\ \E k \in DOMAIN clients :
                  clients[k] = TrimPrefix(message[c], NickChangeCommand)
             /\ clients' = clients
             /\ nickname'[c] = nickname[c]
             /\ hasNickname'[c] = hasNickname[c]
             /\ out' = NoWrite
       /\ (pc[c] = "nick_inuse" /\ pc'[c] # "nick_inuse")
          => /\ clients' = clients
             /\ nickname'[c] = nickname[c]
             /\ hasNickname'[c] = hasNickname[c]
             /\ out'.by = c /\ out'.to = c /\ out'.text = Text("inuse", <<>>, <<>>)
    ]_vars

\* C8 witness: a registered session asking for a taken name has been sent the
\* "already in use" notice and still holds its earlier nickname.
NamingConflictRejected ==
  \E c \in Conns :
    /\ out.by = c /\ out.to = c /\ out.text.kind = "inuse"
    /\ hasNickname[c]
    /\ c \in DOMAIN clients /\ clients[c] = nickname[c]

\* ---------------------------------------------------------------------- C9
\* Number of positions of the list l that hold the token t.
Count(l, t) == Cardinality({ i \in 1..Len(l) : l[i] = t })

Nicks == { <<"a">>, <<"b">> }

\* C9: the list getClientList builds holds, for every nickname, as many
\* occurrences as the registry has entries with that nickname at the instant
\* of the scan, and nothing else; the one reply goes to the caller and carries
\* that list; a session that ended through a failed read has no entry, so it
\* contributes to no list built afterwards.
ListReplyExact ==
  [][/\ \A c \in Conns :
          /\ (pc[c] = "list_scan" /\ pc'[c] = "list_reply")
             => /\ Len(clientList'[c]) = 2 * Cardinality(DOMAIN clients)
                /\ \A n \in Nicks :
                     Count(clientList'[c], n[1])
                       = Cardinality({ k \in DOMAIN clients : clients[k] = n })
          /\ (pc[c] = "list_reply" /\ pc'[c] # "list_reply")
             => /\ out'.by = c /\ out'.to = c
                /\ out'.text = Text("list", clientList[c], <<>>)
      /\ \A d \in Conns : (pc[d] = "closed" /\ readErr[d]) => d \notin DOMAIN clients
    ]_vars

\* C9 witness: a list reply that does not name a session that had registered
\* and then ended through a failed read.
ListAfterDisconnect ==
  \E c \in Conns, d \in Conns :
    /\ out.by = c /\ out.to = c /\ out.text.kind = "list"
    /\ pc[d] = "closed" /\ readErr[d] /\ hasNickname[d]
    /\ Count(out.text.a, nickname[d][1]) = 0
    /\ Len(out.text.a) > 0

\* --------------------------------------------------------------------- C10
\* The trimmed line is a /MSG command whose argument has no second part.
MalformedMsg(msg) ==
  /\ HasPrefix(msg, MessageCommand)
  /\ Len(SplitN2(TrimPrefix(msg, MessageCommand))) # 2

\* C10 as stated: a malformed /MSG line of a registered session takes the
\* usage branch, which writes the usage reply to the sender only, does not
\* enter sendPrivateMessage, and goes back to the read.
MalformedMsgContinues ==
  [][\A c \in Conns :
       /\ (Dispatched(c) /\ hasNickname[c] /\ MalformedMsg(message'[c]))
          => pc'[c] = "msg_usage"
       /\ (pc[c] = "msg_usage" /\ pc'[c] # "msg_usage")
          => /\ out'.by = c /\ out'.to = c /\ out'.text = Text("usage", <<>>, <<>>)
             /\ clients' = clients
             /\ wr' = wr
             /\ pc'[c] = "read"
    ]_vars

\* C10 amended: as above, and the session goes back to the read when the
\* write of the usage reply succeeds; when it fails the worker returns.
MalformedMsgUsage ==
  [][\A c \in Conns :
       /\ (Dispatched(c) /\ hasNickname[c] /\ MalformedMsg(message'[c]))
          => pc'[c] = "msg_usage"
       /\ (pc[c] = "msg_usage" /\ pc'[c] # "msg_usage")
          => /\ out'.by = c /\ out'.to = c /\ out'.text = Text("usage", <<>>, <<>>)
             /\ clients' = clients
             /\ wr' = wr
             /\ pc'[c] = IF out'.ok THEN "read" ELSE "closed"
    ]_vars

\* C10 witness: a registered session has been sent the usage reply and is
\* back at the read.
MalformedMsgReplied ==
  \E c \in Conns :
    /\ out.by = c /\ out.to = c /\ out.text.kind = "usage" /\ out.ok
    /\ hasNickname[c]
    /\ pc[c] = "read"

\* --------------------------------------------------------------------- C11
\* C11: the removal of handleClientDisconnect leaves no entry for the
\* connection and every other entry as it was; applied again to its own
\* result it changes nothing, and applied to a connection that has no entry
\* it changes nothing.
IdempotentDisconnect ==
  [][\A c \in Conns :
       (pc[c] = "disc_delete" /\ pc'[c] = "closed")
       => /\ c \notin DOMAIN clients'
          /\ DOMAIN clients' = DOMAIN clients \ {c}
          /\ \A k \in DOMAIN clients' : clients'[k] = clients[k]
          /\ Del(c)' = clients'
          /\ (c \notin DOMAIN clients => clients' = clients)
    ]_vars

\* C11 witness: a connection that never registered has been removed while
\* another session's entry is in the registry.
DisconnectOfUnregistered ==
  \E c \in Conns, d \in Conns :
    /\ pc[c] = "closed" /\ readErr[c] /\ ~hasNickname[c]
    /\ d # c /\ d \in DOMAIN clients

\* --------------------------------------------------------------------- C12
\* Worker c is inside broadcastMessage or sendPrivateMessage, past the Lock.
Routing(c) == pc[c] \in {"bc_range", "pm_range", "pm_unlock"}

\* C12: from the Lock of a routing call to its Unlock no step changes the
\* registry, the entries the range of a broadcast has still to visit are
\* entries of that registry, and every connection the call has written to is
\* an entry of it that the range has visited, written at most once.
RoutingAtomic ==
  [][\A c \in Conns :
       Routing(c)
       => /\ clients' = clients
          /\ rest[c] \subseteq DOMAIN clients
          /\ \A k \in Conns :
               wr[c][k] # << >>
               => k \in DOMAIN clients /\ k \notin rest[c] /\ Len(wr[c][k]) = 1
    ]_vars

\* C12 witness: a broadcast has written to one entry and has another still to
\* visit, while another worker is waiting for the lock.
RoutingInProgress ==
  \E c \in Conns, d \in Conns :
    /\ c # d
    /\ pc[c] = "bc_range"
    /\ rest[c] # {}
    /\ \E k \in Conns : wr[c][k] # << >>
    /\ pc[d] \in {"nick_check", "nick_lock", "disc_lock"}

\* --------------------------------------------------------------------- C13
\* Worker c is at a step that reads or writes the map clients.
InCritical(c) ==
  pc[c] \in {"nick_scan", "nick_store", "list_scan", "bc_range", "pm_range",
             "pm_unlock", "disc_delete"}

\* Worker c is about to call Lock.
AtLock(c) ==
  pc[c] \in {"nick_check", "nick_lock", "list_lock", "bc_lock", "pm_lock", "disc_lock"}

\* C13: a worker at a step that reads or writes the map holds clientsLock, at
\* most one worker is at such a step, and every change of the map is made by
\* the worker that holds the lock.
LockDiscipline ==
  [][/\ \A c \in Conns : InCritical(c) => clientsLock = c
     /\ \A c, d \in Conns : (InCritical(c) /\ InCritical(d)) => c = d
     /\ clients' # clients
        => \E c \in Conns : InCritical(c) /\ clientsLock = c /\ pc'[c] # pc[c]
    ]_vars

\* C13 witness: a worker holds the lock to store its nickname while another
\* worker is about to call Lock.
LockHeldForStore ==
  \E c \in Conns, d \in Conns :
    /\ c # d
    /\ pc[c] = "nick_store" /\ clientsLock = c
    /\ AtLock(d)

\* --------------------------------------------------------------------- C14
\* The broadcast of worker c has had a failed write to another connection.
RecipientFailure(c) ==
  \E k \in Conns \ {c} : \E i \in 1..Len(wr[c][k]) : ~wr[c][k][i].ok

\* C14: a failed write to a recipient of a broadcast leaves the sender in the
\* range with the registry unchanged and only the visited entry taken off the
\* entries to visit; when the range is over every entry with a nickname other
\* than the sender's, and the sender, has been written exactly once, whatever
\* failed; and the call then returns to the read of the sender's session.
RecipientFailureIsolation ==
  [][\A c \in Conns :
       /\ (pc[c] = "bc_range" /\ out'.by = c /\ out'.to # c /\ ~out'.ok)
          => /\ pc'[c] = "bc_range"
             /\ clients' = clients
             /\ rest'[c] = rest[c] \ {out'.to}
             /\ Len(wr'[c][out'.to]) = 1
       /\ (BroadcastDone(c) /\ RecipientFailure(c))
          => /\ \A k \in DOMAIN clients :
                  (k = c \/ clients[k] # nickname[c]) => Len(wr[c][k]) = 1
             /\ \A k \in Conns : Len(wr[c][k]) <= 1
             /\ (pc'[c] # pc[c] => pc'[c] = "read" /\ clients' = clients)
    ]_vars

\* C14 witness: a broadcast is over with a failed write to another session's
\* connection and the echo written to the sender.
BroadcastPastFailure ==
  \E c \in Conns :
    /\ BroadcastDone(c)
    /\ RecipientFailure(c)
    /\ Len(wr[c][c]) = 1

\* --------------------------------------------------------------------- C15
\* C15: while a worker is inside broadcastMessage or sendPrivateMessage with
\* its writes not all returned, no other worker is at a step that reads or
\* writes the registry and no other worker gets past a Lock: the availability
\* scan and the store of /NICK, /LIST, /BC, /MSG and the removal wait.
StallPropagation ==
  [][\A c \in Conns, d \in Conns :
       (c # d /\ pc[c] \in {"bc_range", "pm_range"})
       => /\ ~InCritical(d)
          /\ AtLock(d) => pc'[d] = pc[d]
          /\ ~AtLock(d) => ~InCritical(d)'
    ]_vars

\* C15 witness: a private message is about to be written under the lock while
\* another worker is about to call Lock for its /NICK.
RoutingBlocksOthers ==
  \E c \in Conns, d \in Conns :
    /\ c # d
    /\ pc[c] = "pm_range"
    /\ pc[d] \in {"nick_check", "nick_lock"}

\* --------------------------------------------------------------------- C16
\* C16: a worker starts with hasNickname false; hasNickname turns true only
\* at the confirmation of a /NICK whose name has been stored, and is never
\* reset; a worker that has returned takes no further step: it stays closed,
\* writes nothing, and its locals and its registry entry are as it left them.
SessionLifecycle ==
  [][\A c \in Conns :
       /\ pc[c] = "welcome" => ~hasNickname[c]
       /\ hasNickname[c] => hasNickname'[c]
       /\ (~hasNickname[c] /\ hasNickname'[c])
          => /\ pc[c] = "nick_confirm"
             /\ c \in DOMAIN clients /\ clients[c] = nickname[c]
       /\ pc[c] = "closed"
          => /\ pc'[c] = "closed"
             /\ out'.by # c
             /\ message'[c] = message[c]
             /\ nickname'[c] = nickname[c]
             /\ (c \in DOMAIN clients') = (c \in DOMAIN clients)
             /\ c \in DOMAIN clients => clients'[c] = clients[c]
    ]_vars

\* C16 witness: a session that had registered has ended through a failed read
\* while another worker is still running.
RegisteredThenClosed ==
  \E c \in Conns, d \in Conns :
    /\ pc[c] = "closed" /\ readErr[c] /\ hasNickname[c]
    /\ pc[d] \notin {"closed", "welcome"}

\* --------------------------------------------------------------------- C17
\* Worker c, already registered, stores the name of a successful /NICK.
RenameStep(c) ==
  pc[c] = "nick_store" /\ pc'[c] = "nick_confirm" /\ hasNickname[c]

\* C17: the store of a rename replaces the value of the session's one entry:
\* the keys of the registry are the same, the other entries are unchanged, the
\* entry holds the new nickname, no entry holds the old nickname any more (it
\* is available), and a routing call of the session carries the nickname of
\* its entry.
RenameInPlace ==
  [][\A c \in Conns :
       /\ RenameStep(c)
          => /\ c \in DOMAIN clients
             /\ DOMAIN clients' = DOMAIN clients
             /\ clients'[c] = nickname[c]
             /\ \A k \in DOMAIN clients \ {c} : clients'[k] = clients[k]
             /\ \A old \in {clients[c]} :
                  /\ \A k \in DOMAIN clients' : clients'[k] # old
                  /\ isNicknameAvailable(old)'
       /\ Routing(c) => (c \in DOMAIN clients /\ clients[c] = nickname[c])
    ]_vars

\* --------------------------------------------------------------------- C18
\* The name worker c asked for with the /NICK line it is processing.
Requested(c) == TrimPrefix(message[c], NickChangeCommand)

\* C18: the availability scan of a /NICK request sends the worker on to the
\* store exactly when no registry entry, the requester's own included, holds
\* the requested name at that moment, and to the "already in use" notice
\* otherwise; the store writes the requested name and is followed by the
\* confirmation, the rejection writes the notice and leaves the registry
\* alone, and no entry is stored other than after a scan that found the name
\* free.
AvailabilityAllEntries ==
  [][\A c \in Conns :
       /\ (pc[c] = "nick_scan" /\ pc'[c] # "nick_scan")
          => /\ pc'[c] \in {"nick_lock", "nick_inuse"}
             /\ pc'[c] = "nick_lock"
                <=> \A k \in DOMAIN clients : clients[k] # Requested(c)
             /\ (c \in DOMAIN clients /\ clients[c] = Requested(c))
                => pc'[c] = "nick_inuse"
             /\ pc'[c] = "nick_lock" => nickname'[c] = Requested(c)
       /\ pc[c] = "nick_lock" => pc'[c] \in {"nick_lock", "nick_store"}
       /\ (pc[c] = "nick_store" /\ pc'[c] # "nick_store")
          => /\ pc'[c] = "nick_confirm"
             /\ c \in DOMAIN clients' /\ clients'[c] = Requested(c)
       /\ (pc[c] = "nick_confirm" /\ pc'[c] # "nick_confirm")
          => /\ out'.by = c /\ out'.to = c
             /\ out'.text = Text("nickset", Requested(c), <<>>)
       /\ (pc[c] = "nick_inuse" /\ pc'[c] # "nick_inuse")
          => /\ out'.by = c /\ out'.to = c
             /\ out'.text = Text("inuse", <<>>, <<>>)
             /\ clients' = clients
       /\ (c \in DOMAIN clients'
           /\ (c \notin DOMAIN clients \/ clients'[c] # clients[c]))
          => pc[c] = "nick_store"
    ]_vars

\* A registered session that asked for its own current nickname is at the
\* "already in use" notice.
OwnNicknameRejected ==
  \E c \in Conns :
    /\ pc[c] = "nick_inuse"
    /\ hasNickname[c]
    /\ c \in DOMAIN clients
    /\ clients[c] = Requested(c)

\* --------------------------------------------------------------------- C19
\* The trimmed form of a line made of a command prefix and white space only.
BareNick == TrimSpace(NickChangeCommand)
BareBroadcast == TrimSpace(BroadcastCommand)

\* C19 as stated: a line made of the /NICK prefix (or, from a registered
\* session, the /BC prefix) followed only by white space is dispatched to that
\* command, with an empty argument.
EmptyArgumentDispatched ==
  [][\A c \in Conns :
       Dispatched(c)
       => /\ message'[c] = BareNick => pc'[c] = "nick_check"
          /\ (message'[c] = BareBroadcast /\ hasNickname[c])
             => pc'[c] = "bc_lock"
    ]_vars

\* C19 amended: such a line is trimmed to the bare command word, which does
\* not have the prefix with its trailing space, so it takes the branch of
\* unrecognized input (the help reply for a registered session, "set your
\* nickname first" otherwise); no /NICK or /BC command is dispatched with an
\* empty argument and no registry entry holds the empty name.
EmptyArgumentUnrecognized ==
  [][\A c \in Conns :
       /\ Dispatched(c)
          => /\ message'[c] \in {BareNick, BareBroadcast}
                => pc'[c] = IF hasNickname[c] THEN "help" ELSE "regfirst"
             /\ pc'[c] = "nick_check"
                => TrimPrefix(message'[c], NickChangeCommand) # <<>>
             /\ pc'[c] = "bc_lock"
                => TrimPrefix(message'[c], BroadcastCommand) # <<>>
       /\ c \in DOMAIN clients' => clients'[c] # <<>>
    ]_vars

\* A registered session sent "/NICK " and is at the help reply, and an
\* unregistered one sent "/BC " or "/NICK " and is at "set your nickname first".
BarePrefixUnrecognized ==
  /\ \E c \in Conns : pc[c] = "help" /\ message[c] = BareNick
  /\ \E c \in Conns : pc[c] = "regfirst" /\ message[c] \in {BareNick, BareBroadcast}

\* --------------------------------------------------------------------- C20
\* A trimmed line that is none of the four commands.
Unrecognized(msg) ==
  /\ ~HasPrefix(msg, NickChangeCommand)
  /\ msg # ListCommand
  /\ ~HasPrefix(msg, BroadcastCommand)
  /\ ~HasPrefix(msg, MessageCommand)

\* C20: an unrecognized line read by a registered session takes the help
\* branch, and that branch writes the help reply to the session's own
\* connection only, leaves the registry unchanged, and leaves the session
\* registered and at the read of its next line, whether or not the write
\* succeeded.
UnrecognizedInputHelp ==
  [][\A c \in Conns :
       /\ (Dispatched(c) /\ hasNickname[c] /\ Unrecognized(message'[c]))
          => pc'[c] = "help"
       /\ (Dispatched(c) /\ pc'[c] = "help")
          => (hasNickname[c] /\ Unrecognized(message'[c]))
       /\ (pc[c] = "help" /\ pc'[c] # "help")
          => /\ out'.by = c /\ out'.to = c
             /\ out'.text = Text("help", <<>>, <<>>)
             /\ clients' = clients
             /\ hasNickname[c] /\ hasNickname'[c]
             /\ pc'[c] = "read"
    ]_vars

\* The write of the help reply to a registered session failed and the session
\* is back at the read, still registered, with its entry in the registry.
HelpReplyFailedContinues ==
  \E c \in Conns :
    /\ out.by = c /\ out.to = c /\ out.text.kind = "help" /\ ~out.ok
    /\ hasNickname[c]
    /\ c \in DOMAIN clients
    /\ pc[c] = "read"

\* --------------------------------------------------------------------- C21
\* Worker c is inside a command or the disconnect: it has taken a line (or a
\* read error) and has not come back to the read or returned.
Started(c) == pc[c] \notin {"welcome", "read", "closed"}

\* C21: a worker about to call Lock does not hold clientsLock, and a worker
\* that holds it is inside the function that took it (the lock is released on
\* every way out); with every write returning and the input finite, every run
\* comes to a point from which no worker is inside a command and the lock is
\* free: every Lock call has returned, every held lock has been released and
\* every command a session has started has come to its end.
DeadlockFreedom ==
  /\ [](\A c \in Conns :
          /\ AtLock(c) => clientsLock # c
          /\ clientsLock = c => InCritical(c)
          /\ clientsLock \in {0} \cup Conns)
  /\ <>[](clientsLock = 0 /\ \A c \in Conns : ~Started(c))

\* A worker is waiting at the Lock of the disconnect while another holds the
\* lock in getClientList or in isNicknameAvailable.
LockContended ==
  \E c \in Conns, d \in Conns :
    /\ c # d
    /\ pc[c] = "disc_lock"
    /\ clientsLock = d
    /\ pc[d] \in {"list_scan", "nick_scan"}

\* --------------------------------------------------------------------- C22
\* The locals of worker c agree with the registry.
Agreement(c) ==
  /\ hasNickname[c] <=> c \in DOMAIN clients
  /\ hasNickname[c] => clients[c] = nickname[c]

\* The registry entry of connection c is inserted, changed or deleted.
EntryChanged(c) ==
  \/ (c \in DOMAIN clients) # (c \in DOMAIN clients')
  \/ c \in DOMAIN clients /\ c \in DOMAIN clients' /\ clients'[c] # clients[c]

\* C22: whenever a worker is about to read its next line, its hasNickname is
\* true exactly when the registry has an entry for its connection, and then
\* the entry holds the worker's local nickname; the entry of a connection is
\* inserted, changed or deleted by a step of that connection's worker only
\* (its store or its disconnect, holding the lock).
LocalRegistryAgreement ==
  [][\A c \in Conns :
       /\ pc[c] = "read" => Agreement(c)
       /\ pc'[c] = "read" => Agreement(c)'
       /\ EntryChanged(c)
          => /\ pc[c] \in {"nick_store", "disc_delete"}
             /\ pc'[c] # pc[c]
             /\ clientsLock = c
             /\ \A d \in Conns \ {c} : pc'[d] = pc[d]
    ]_vars

\* A registered worker is back at the read after a rejected /NICK, its entry
\* still holding its nickname, while another connection has an entry too.
AgreementAfterRejection ==
  \E c \in Conns, d \in Conns :
    /\ c # d
    /\ pc[c] = "read" /\ hasNickname[c]
    /\ out.by = c /\ out.text.kind = "inuse"
    /\ c \in DOMAIN clients /\ clients[c] = nickname[c]
    /\ d \in DOMAIN clients

====
